---------------------------- MODULE Spec2Model ----------------------------
(***************************************************************************)
(* A model of stockAssessmentFuns.hpp: posfun, square, addCompNoise,       *)
(* CRmort, solveBaranovDD and negLogLogisticNormal.                        *)
(*                                                                         *)
(* The library is a set of functions over a numeric template type "Type".  *)
(* The state of the model is the state of a caller: the penalty            *)
(* accumulator it owns and shares between posfun calls, and the arguments  *)
(* and outputs of the call it made last.  The functions share no state, so *)
(* a caller either makes a sequence of posfun calls on its accumulator or  *)
(* makes one call of another function.                                     *)
(*                                                                         *)
(* Numbers.  A scalar is an extended rational <<n, d>> in lowest terms,    *)
(* d >= 0, with the IEEE specials <<1,0>> = +Inf, <<-1,0>> = -Inf and      *)
(* <<0,0>> = NaN (so x/0 and 0/0 are what the hardware gives, not an       *)
(* error).  Rounding and signed zero are not modelled.  Values that        *)
(* involve log() are elements of Q[ln b], c0 + c1*ln(b) + c2*ln(b)^2.      *)
(* solveBaranovDD, which iterates exp(), is computed at finite precision   *)
(* in fixed point (SCALE units per 1).                                     *)
(***************************************************************************)
EXTENDS Integers, Sequences, FiniteSets

VARIABLES
    pen0,   \* the value the caller initialised its penalty accumulator to
    pen,    \* the penalty accumulator, passed by reference to every posfun call
    hist,   \* the arguments of the posfun calls made so far, in order
    call    \* the call made last: its function, arguments and outputs

vars == <<pen0, pen, hist, call>>

---------------------------------------------------------------------------
(* Bounds of the model *)

\* posfun calls made on the shared accumulator
MaxCalls == 3

\* length of a composition vector
MaxComps == 3

\* largest count in an age composition, and largest minObs (from 1)
MaxObs == 2

\* largest plus-group age
MaxAplus == 3

\* largest number of Newton-Raphson iterations
MaxIter == 3

\* fixed-point units per 1 in solveBaranovDD
SCALE == 1000

---------------------------------------------------------------------------
(* Extended rational arithmetic: the arithmetic of Type *)

Abs(i) == IF i < 0 THEN -i ELSE i

Sgn(i) == IF i < 0 THEN -1 ELSE IF i > 0 THEN 1 ELSE 0

RECURSIVE GCD(_, _)
GCD(a, b) == IF b = 0 THEN a ELSE GCD(b, a % b)

\* n/d in lowest terms, d >= 0; n/0 is +Inf, -Inf or NaN by the sign of n
Norm(n, d) ==
    IF d = 0 THEN <<Sgn(n), 0>>
    ELSE LET g == GCD(Abs(n), Abs(d))
             s == IF d < 0 THEN -1 ELSE 1
         IN  <<(s * n) \div g, (s * d) \div g>>

R(n, d) == Norm(n, d)

Zero == <<0, 1>>
One == <<1, 1>>
Two == <<2, 1>>
PosInf == <<1, 0>>
NegInf == <<-1, 0>>
NaN == <<0, 0>>

IsNaN(a) == a = NaN
IsFinite(a) == a[2] # 0

RNeg(a) == <<-a[1], a[2]>>

RAdd(a, b) ==
    IF IsNaN(a) \/ IsNaN(b) THEN NaN
    ELSE IF ~IsFinite(a) /\ ~IsFinite(b) THEN (IF a = b THEN a ELSE NaN)
    ELSE IF ~IsFinite(a) THEN a
    ELSE IF ~IsFinite(b) THEN b
    ELSE Norm(a[1] * b[2] + b[1] * a[2], a[2] * b[2])

RSub(a, b) == RAdd(a, RNeg(b))

\* Inf * 0 = NaN, Inf * x = +-Inf: all given by n1*n2 / d1*d2
RMul(a, b) == Norm(a[1] * b[1], a[2] * b[2])

\* x / 0 = +-Inf, 0 / 0 = NaN, x / Inf = 0
RDiv(a, b) ==
    IF IsNaN(a) \/ IsNaN(b) THEN NaN
    ELSE IF ~IsFinite(b) THEN (IF IsFinite(a) THEN Zero ELSE NaN)
    ELSE IF b[1] = 0 THEN Norm(a[1], 0)
    ELSE IF ~IsFinite(a) THEN <<a[1] * Sgn(b[1]), 0>>
    ELSE Norm(a[1] * b[2], a[2] * b[1])

\* Comparisons: every comparison with NaN is false
RLt(a, b) ==
    /\ ~IsNaN(a) /\ ~IsNaN(b)
    /\ a # b
    /\ IF ~IsFinite(a) THEN a = NegInf
       ELSE IF ~IsFinite(b) THEN b = PosInf
       ELSE a[1] * b[2] < b[1] * a[2]

REq(a, b) == ~IsNaN(a) /\ ~IsNaN(b) /\ a = b

RGe(a, b) == ~IsNaN(a) /\ ~IsNaN(b) /\ ~RLt(a, b)

RGt(a, b) == RLt(b, a)

\* pow(x, k) for an int exponent k >= 0; pow(x, 0) = 1 for every x
RECURSIVE RPow(_, _)
RPow(a, k) == IF k = 0 THEN One ELSE RMul(a, RPow(a, k - 1))

---------------------------------------------------------------------------
(* posfun *)

CondExpLt(l, r, ifTrue, ifFalse) == IF RLt(l, r) THEN ifTrue ELSE ifFalse

CondExpGe(l, r, ifTrue, ifFalse) == IF RGe(l, r) THEN ifTrue ELSE ifFalse

\* posfun as in ADMB, before the modification: eps / (2 - x/eps) below eps
posfunAdmb(x, eps, p) ==
    [ pen |-> RAdd(p, CondExpLt(x, eps, RMul(R(1, 100), RPow(RSub(x, eps), 2)), Zero)),
      ret |-> CondExpGe(x, eps, x, RDiv(eps, RSub(Two, RDiv(x, eps)))) ]

\* posfun with the penalty added whatever x is
posfunAlwaysPen(x, eps, p) ==
    [ pen |-> RAdd(p, RMul(R(1, 100), RPow(RSub(x, eps), 2))),
      ret |-> CondExpGe(x, eps, x, RDiv(eps, RSub(Two, RDiv(eps, x)))) ]

\* posfun with pen = in place of pen +=
posfunAssign(x, eps, p) ==
    [ pen |-> CondExpLt(x, eps, RMul(R(1, 100), RPow(RSub(x, eps), 2)), Zero),
      ret |-> CondExpGe(x, eps, x, RDiv(eps, RSub(Two, RDiv(eps, x)))) ]

\* the call's return value and the accumulator it leaves
posfun(x, eps, p) ==
    [ pen |-> RAdd(p, CondExpLt(x, eps, RMul(R(1, 100), RPow(RSub(x, eps), 2)), Zero)),
      ret |-> CondExpGe(x, eps, x, RDiv(eps, RSub(Two, RDiv(eps, x)))) ]

---------------------------------------------------------------------------
(* Values that involve log(): c0 + c1*ln(b) + c2*ln(b)^2 over the rationals. *)
(* ln 2 is transcendental, so over base 2 the three coefficients determine   *)
(* the value.  A value with no log part has b = 1; a special (Inf, NaN)      *)
(* has no log part.                                                          *)

Num(q) == [c0 |-> q, c1 |-> Zero, c2 |-> Zero, b |-> One]

VNorm(u) ==
    IF ~IsFinite(u.c0) \/ (u.c1 = Zero /\ u.c2 = Zero) THEN Num(u.c0) ELSE u

IsNum(u) == u.b = One

RECURSIVE IsPow2(_)
IsPow2(n) == n = 1 \/ (n > 1 /\ n % 2 = 0 /\ IsPow2(n \div 2))

RECURSIVE Log2(_)
Log2(n) == IF n = 1 THEN 0 ELSE 1 + Log2(n \div 2)

\* log(x): log(0) = -Inf, log of a negative or NaN is NaN, log(1) = 0,
\* log(2^k) = k*ln 2, and log(q) = 1*ln(q) for any other q
Log(q) ==
    IF IsNaN(q) \/ RLt(q, Zero) THEN Num(NaN)
    ELSE IF q = Zero THEN Num(NegInf)
    ELSE IF q = PosInf THEN Num(PosInf)
    ELSE IF q = One THEN Num(Zero)
    ELSE IF q[2] = 1 /\ IsPow2(q[1])
         THEN [c0 |-> Zero, c1 |-> R(Log2(q[1]), 1), c2 |-> Zero, b |-> Two]
    ELSE IF q[1] = 1 /\ IsPow2(q[2])
         THEN [c0 |-> Zero, c1 |-> R(-Log2(q[2]), 1), c2 |-> Zero, b |-> Two]
    ELSE [c0 |-> Zero, c1 |-> One, c2 |-> Zero, b |-> q]

\* u + v, for values over one base
VAdd(u, v) ==
    CASE IsNum(u) ->
           VNorm([c0 |-> RAdd(u.c0, v.c0), c1 |-> v.c1, c2 |-> v.c2, b |-> v.b])
      [] ~IsNum(u) /\ IsNum(v) ->
           VNorm([c0 |-> RAdd(u.c0, v.c0), c1 |-> u.c1, c2 |-> u.c2, b |-> u.b])
      [] ~IsNum(u) /\ ~IsNum(v) /\ u.b = v.b ->
           VNorm([c0 |-> RAdd(u.c0, v.c0), c1 |-> RAdd(u.c1, v.c1),
                  c2 |-> RAdd(u.c2, v.c2), b |-> u.b])

\* r * u, for a rational r (finite when u has a log part)
VScale(r, u) ==
    CASE IsNum(u) -> Num(RMul(r, u.c0))
      [] ~IsNum(u) /\ IsFinite(r) ->
           VNorm([c0 |-> RMul(r, u.c0), c1 |-> RMul(r, u.c1),
                  c2 |-> RMul(r, u.c2), b |-> u.b])

VSub(u, v) == VAdd(u, VScale(R(-1, 1), v))

\* u / r, for a rational r (nonzero when u has a log part)
VDiv(u, r) ==
    CASE IsNum(u) -> Num(RDiv(u.c0, r))
      [] ~IsNum(u) /\ r # Zero -> VScale(RDiv(One, r), u)

\* square(x) = pow(x, 2), for a number or a multiple of ln(b)
square(u) ==
    CASE IsNum(u) -> Num(RPow(u.c0, 2))
      [] ~IsNum(u) /\ u.c0 = Zero /\ u.c2 = Zero ->
           [c0 |-> Zero, c1 |-> Zero, c2 |-> RPow(u.c1, 2), b |-> u.b]

\* a^k for an integer k of either sign
RPowZ(a, k) == IF k >= 0 THEN RPow(a, k) ELSE RDiv(One, RPow(a, -k))

\* exp(u), for u = 0, a special, or k*ln(b) with k an integer: exp(k*ln b) = b^k
Exp(u) ==
    CASE IsNum(u) /\ u.c0 = Zero -> One
      [] IsNum(u) /\ u.c0 = NegInf -> Zero
      [] IsNum(u) /\ u.c0 = PosInf -> PosInf
      [] IsNum(u) /\ u.c0 = NaN -> NaN
      [] ~IsNum(u) /\ u.c0 = Zero /\ u.c2 = Zero /\ u.c1[2] = 1 ->
           RPowZ(u.b, u.c1[1])

\* IEEE equality of two values: NaN equals nothing
VEq(u, v) == ~IsNaN(u.c0) /\ ~IsNaN(v.c0) /\ u = v

---------------------------------------------------------------------------
(* Vectors: sequences 1..n; index c of the source is c+1 here *)

RECURSIVE RSum(_)
RSum(v) == IF v = <<>> THEN Zero ELSE RAdd(RSum(SubSeq(v, 1, Len(v) - 1)), v[Len(v)])

RECURSIVE RProd(_)
RProd(v) == IF v = <<>> THEN One ELSE RMul(RProd(SubSeq(v, 1, Len(v) - 1)), v[Len(v)])

\* all vectors of length n over a set
Vectors(S, n) == [1 .. n -> S]

---------------------------------------------------------------------------
(* addCompNoise *)

\* addCompNoise without the division by the total
addCompNoiseUnnormalised(inputComp, noise) ==
    LET nComps == Len(inputComp)
        logInputComp == [c \in 1 .. nComps |-> Log(inputComp[c])]
    IN  [c \in 1 .. nComps |-> Exp(VAdd(logInputComp[c], noise[c]))]

addCompNoise(inputComp, noise) ==
    LET nComps == Len(inputComp)
        logInputComp == [c \in 1 .. nComps |-> Log(inputComp[c])]
        expComp == [c \in 1 .. nComps |-> Exp(VAdd(logInputComp[c], noise[c]))]
        tmpTotal == RSum(expComp)
    IN  [c \in 1 .. nComps |-> RDiv(expComp[c], tmpTotal)]

---------------------------------------------------------------------------
(* CRmort *)

\* the loop with continue in place of break: a filter, not an early exit
RECURSIVE CRloopFilter(_, _, _, _, _, _)
CRloopFilter(ageComp, kage, Aplus, minObs, a, st) ==
    IF a < Aplus
    THEN IF RGe(ageComp[a + 1], R(minObs, 1))
         THEN CRloopFilter(ageComp, kage, Aplus, minObs, a + 1,
                     [ageObs |-> [st.ageObs EXCEPT ![a - kage + 2] = ageComp[a + 1]],
                      abar |-> RAdd(st.abar, RMul(R(a - kage + 1, 1), ageComp[a + 1]))])
         ELSE CRloopFilter(ageComp, kage, Aplus, minObs, a + 1, st)
    ELSE st

\* the for loop of CRmort from index a (0-based, as in the source) on;
\* st holds the locals ageObs and abar
RECURSIVE CRloop(_, _, _, _, _, _)
CRloop(ageComp, kage, Aplus, minObs, a, st) ==
    IF a < Aplus
    THEN IF RGe(ageComp[a + 1], R(minObs, 1))
         THEN CRloop(ageComp, kage, Aplus, minObs, a + 1,
                     [ageObs |-> [st.ageObs EXCEPT ![a - kage + 2] = ageComp[a + 1]],
                      abar |-> RAdd(st.abar, RMul(R(a - kage + 1, 1), ageComp[a + 1]))])
         ELSE st
    ELSE st

\* the locals at the end of the call and the value written to Ztmp
CRmort(ageComp, kage, Aplus, minObs) ==
    LET maxAges == Aplus - kage + 1
        st == CRloop(ageComp, kage, Aplus, minObs, kage - 1,
                     [ageObs |-> [i \in 1 .. maxAges |-> Zero], abar |-> Zero])
        N == RSum(st.ageObs)
        abar == RDiv(st.abar, N)
    IN  [ ageObs |-> st.ageObs,
          abarSum |-> st.abar,
          N |-> N,
          abar |-> abar,
          Ztmp |-> IF REq(abar, Zero)
                   THEN Num(R(-1, 1))
                   ELSE Log(RDiv(RSub(RAdd(One, abar), RDiv(One, N)), abar)) ]

---------------------------------------------------------------------------
(* negLogLogisticNormal *)

\* int / int in C++ (both operands >= 0 here)
IntDiv(a, b) == a \div b

\* the loop over dimensions from i (0-based) on
RECURSIVE nldLoop(_, _, _, _, _, _, _)
nldLoop(y, p, var, ytilde, ptilde, i, nld) ==
    IF i < Len(y)
    THEN nldLoop(y, p, var, ytilde, ptilde, i + 1,
                 VAdd(nld, VDiv(VDiv(square(VSub(Log(RDiv(y[i + 1], ytilde)),
                                                 Log(RDiv(p[i + 1], ptilde)))),
                                     Two), var)))
    ELSE nld

\* negLogLogisticNormal with ptilde taken as the plain product of p
negLogLogisticNormalPtilde(y, p, var) ==
    LET N == Len(y)
        lnvar == Log(var)
        ytilde == RPow(RProd(y), IntDiv(1, N))
        ptilde == RProd(p)
        nld0 == VAdd(Num(Zero), VDiv(VScale(R(N - 1, 1), lnvar), Two))
    IN  [ ytilde |-> ytilde,
          ptilde |-> ptilde,
          nld |-> nldLoop(y, p, var, ytilde, ptilde, 0, nld0) ]

negLogLogisticNormal(y, p, var) ==
    LET N == Len(y)
        lnvar == Log(var)
        ytilde == RPow(RProd(y), IntDiv(1, N))
        ptilde == RPow(RProd(p), IntDiv(1, N))
        nld0 == VAdd(Num(Zero), VDiv(VScale(R(N - 1, 1), lnvar), Two))
    IN  [ ytilde |-> ytilde,
          ptilde |-> ptilde,
          nld |-> nldLoop(y, p, var, ytilde, ptilde, 0, nld0) ]

---------------------------------------------------------------------------
(* solveBaranovDD, at finite precision: a value v of Type is the integer   *)
(* v * SCALE, and every operation rounds its exact result to the nearest   *)
(* such integer.                                                           *)

\* n / d rounded to the nearest integer, d # 0
Rnd(n, d) == IF d > 0 THEN (2 * n + d) \div (2 * d) ELSE (-2 * n - d) \div (-2 * d)

FMul(a, b) == Rnd(a * b, SCALE)

FDiv(a, b) == Rnd(a * SCALE, b)

\* the series of exp(x): term is x^(k-1)/(k-1)!, summed until it rounds to 0
RECURSIVE ExpSeries(_, _, _, _)
ExpSeries(x, term, k, acc) ==
    IF term = 0 THEN acc
    ELSE ExpSeries(x, Rnd(term * x, SCALE * k), k + 1, acc + term)

FExp(x) == ExpSeries(x, SCALE, 1, 0)

\* the Newton-Raphson loop from iteration i on; st holds Z, newZ and F
RECURSIVE BaranovLoop(_, _, _, _, _, _, _)
BaranovLoop(i, nIter, Bstep, C, M, B, st) ==
    IF i < nIter
    THEN LET Z == st.newZ
             tmp == FDiv(FMul(FMul(B, SCALE - FExp(-Z)), st.F), Z)
             f == C - tmp
             J == FMul(-B, FDiv(FMul(SCALE - FExp(-Z), M), FMul(Z, Z))
                           + FDiv(FMul(FExp(-Z), st.F), Z))
             F == st.F - FDiv(FMul(Bstep, f), J)
         IN  BaranovLoop(i + 1, nIter, Bstep, C, M, B,
                         [Z |-> Z, newZ |-> M + F, F |-> F])
    ELSE st

\* the values left in the outputs Z and F
solveBaranovDD(nIter, Bstep, C, M, B) ==
    LET F0 == FDiv(C, C + B)
        st == BaranovLoop(0, nIter, Bstep, C, M, B,
                          [Z |-> M + F0, newZ |-> M + F0, F |-> F0])
    IN  [Z |-> st.Z, F |-> st.F]

---------------------------------------------------------------------------
(* The caller *)

\* thresholds and values a caller passes to posfun
PosfunEps == { One, Two }
PosfunX == { R(n, 2) : n \in -2 .. 6 }

\* the accumulator is initialised by the caller before its first use
PenInit == { Zero, One }

\* compositions (a zero entry included) and log-scale noise
CompVals == { Zero, R(1, 4), R(1, 2), One }
NoiseVals == { Num(Zero), Log(Two), Log(R(1, 2)) }

\* age-composition counts 0 .. MaxObs, plus-group ages 1 .. MaxAplus
AgeComps == Vectors({ R(n, 1) : n \in 0 .. MaxObs }, MaxAplus)

\* observed and expected proportions, and variances
PropVals == { R(1, 4), R(1, 2), One }
VarVals == { R(1, 2), One, Two }

\* catch, natural mortality, biomass and step fraction, in units of 1/SCALE
CatchVals == { 0, SCALE, 5 * SCALE }
MortVals == { SCALE \div 5, SCALE \div 2 }
BiomassVals == { 10 * SCALE, 20 * SCALE }
BstepVals == { SCALE \div 2, SCALE }

Init ==
    /\ pen0 \in PenInit
    /\ pen = pen0
    /\ hist = <<>>
    /\ call = [op |-> "none"]

\* posfun calls share the caller's accumulator; hist lists their arguments
CallPosfun ==
    /\ call.op \in {"none", "posfun"}
    /\ Len(hist) < MaxCalls
    /\ \E x \in PosfunX, eps \in PosfunEps :
         LET r == posfun(x, eps, pen)
         IN  /\ pen' = r.pen
             /\ call' = [op |-> "posfun", x |-> x, eps |-> eps, ret |-> r.ret]
             /\ hist' = Append(hist, [x |-> x, eps |-> eps])
    /\ UNCHANGED pen0

CallAddCompNoise ==
    /\ call.op = "none"
    /\ \E n \in 1 .. MaxComps :
         \E inputComp \in Vectors(CompVals, n), noise \in Vectors(NoiseVals, n) :
           call' = [op |-> "addCompNoise", inputComp |-> inputComp, noise |-> noise,
                    outputComp |-> addCompNoise(inputComp, noise)]
    /\ UNCHANGED <<pen0, pen, hist>>

CallCRmort ==
    /\ call.op = "none"
    /\ \E ageComp \in AgeComps, Aplus \in 1 .. MaxAplus, minObs \in 1 .. MaxObs :
         \E kage \in 1 .. Aplus :
           call' = [op |-> "CRmort", ageComp |-> ageComp, kage |-> kage,
                    Aplus |-> Aplus, minObs |-> minObs,
                    out |-> CRmort(ageComp, kage, Aplus, minObs)]
    /\ UNCHANGED <<pen0, pen, hist>>

CallSolveBaranovDD ==
    /\ call.op = "none"
    /\ \E nIter \in 0 .. MaxIter, Bstep \in BstepVals, C \in CatchVals,
          M \in MortVals, B \in BiomassVals :
         call' = [op |-> "solveBaranovDD", nIter |-> nIter, Bstep |-> Bstep,
                  C |-> C, M |-> M, B |-> B,
                  out |-> solveBaranovDD(nIter, Bstep, C, M, B)]
    /\ UNCHANGED <<pen0, pen, hist>>

CallNegLogLogisticNormal ==
    /\ call.op = "none"
    /\ \E n \in 1 .. MaxComps :
         \E y \in Vectors(PropVals, n), p \in Vectors(PropVals, n), var \in VarVals :
           call' = [op |-> "negLogLogisticNormal", y |-> y, p |-> p, var |-> var,
                    out |-> negLogLogisticNormal(y, p, var)]
    /\ UNCHANGED <<pen0, pen, hist>>

Next ==
    \/ CallPosfun
    \/ CallAddCompNoise
    \/ CallCRmort
    \/ CallSolveBaranovDD
    \/ CallNegLogLogisticNormal

Spec == Init /\ [][Next]_vars

---------------------------------------------------------------------------
(* Properties *)

PosfunBelow == call.op = "posfun" /\ RGt(call.eps, Zero)
                 /\ RLt(call.x, call.eps) /\ call.x # Zero

HalfEps == RDiv(call.eps, Two)

C2_Positive == PosfunBelow => RGt(call.ret, Zero)

\* the number of ages CRmort's loop records: the length of the longest run of
\* entries >= minObs that starts at age kage
PrefixLen ==
    CHOOSE k \in 0 .. (call.Aplus - call.kage + 1) :
        /\ \A j \in 1 .. k : RGe(call.ageComp[call.kage - 1 + j], R(call.minObs, 1))
        /\ \/ k = call.Aplus - call.kage + 1
           \/ ~RGe(call.ageComp[call.kage + k], R(call.minObs, 1))

\* sum of (i - 1) * v[i] over a vector v
RECURSIVE WeightedSum(_)
WeightedSum(v) ==
    IF v = <<>> THEN Zero
    ELSE RAdd(WeightedSum(SubSeq(v, 1, Len(v) - 1)),
              RMul(R(Len(v) - 1, 1), v[Len(v)]))

Recorded == SubSeq(call.ageComp, call.kage, call.kage + PrefixLen - 1)

\* C3: CRmort writes Ztmp = -1 whenever no estimate is possible, both when
\* abar = 0 and when no age is recorded at all (N = 0), and writes
\* log((1 + abar - 1/N) / abar) in every other case.
C3_Sentinel ==
    call.op = "CRmort" =>
        IF PrefixLen = 0 \/ WeightedSum(Recorded) = Zero
        THEN VEq(call.out.Ztmp, Num(R(-1, 1)))
        ELSE VEq(call.out.Ztmp,
                 Log(RDiv(RSub(RAdd(One, call.out.abar), RDiv(One, call.out.N)),
                          call.out.abar)))

\* C4: the ages that contribute to N and to abar are exactly the longest run
\* of entries >= minObs starting at kage; no later age contributes, and a
\* recorded age a adds ageComp(a) to N and (a-kage+1)*ageComp(a) to abar.
C4_EarlyExit ==
    call.op = "CRmort" =>
        /\ \A i \in 1 .. (call.Aplus - call.kage + 1) :
             call.out.ageObs[i] =
                 IF i <= PrefixLen THEN call.ageComp[call.kage - 1 + i] ELSE Zero
        /\ call.out.N = RSum(Recorded)
        /\ call.out.abarSum = WeightedSum(Recorded)

\* a call where an age after the first one below minObs is itself >= minObs
C4_Witness ==
    /\ call.op = "CRmort"
    /\ PrefixLen >= 1
    /\ \E i \in PrefixLen + 2 .. (call.Aplus - call.kage + 1) :
         /\ RGe(call.ageComp[call.kage - 1 + i], R(call.minObs, 1))
         /\ RGt(call.ageComp[call.kage - 1 + i], Zero)

\* C5: when solveBaranovDD returns, for every nIter >= 0, Z = M + F for the
\* F it returns.
C5_ZMatchesF ==
    call.op = "solveBaranovDD" => call.out.Z = call.M + call.out.F

\* C6: ytilde and ptilde are the geometric means prod(y)^(1/N) and
\* prod(p)^(1/N), the exponent being the real 1/N: their N-th powers are the
\* products.
C6_GeometricMeans ==
    call.op = "negLogLogisticNormal" =>
        /\ RPow(call.out.ytilde, Len(call.y)) = RProd(call.y)
        /\ RPow(call.out.ptilde, Len(call.p)) = RProd(call.p)

\* a step that is a posfun call
PosfunStep == hist' # hist

\* C7: for x >= eps (x = eps included) posfun returns x exactly and leaves
\* pen unchanged.
C7_AtOrAboveEps ==
    [][PosfunStep /\ RGe(call'.x, call'.eps)
         => call'.ret = call'.x /\ pen' = pen]_vars

\* a call at x = eps made on an accumulator that earlier calls have raised
C7_Witness ==
    /\ call.op = "posfun"
    /\ call.x = call.eps
    /\ pen # pen0

\* the penalty of one call
Penalty(x, eps) ==
    IF RLt(x, eps) THEN RMul(R(1, 100), RMul(RSub(x, eps), RSub(x, eps))) ELSE Zero

RECURSIVE PenaltySum(_)
PenaltySum(h) ==
    IF h = <<>> THEN Zero
    ELSE RAdd(PenaltySum(SubSeq(h, 1, Len(h) - 1)),
              Penalty(h[Len(h)].x, h[Len(h)].eps))

\* C8: across a sequence of posfun calls on one accumulator, pen is its
\* initial value plus the sum of 0.01*(x-eps)^2 over exactly the calls with
\* x < eps; each call adds exactly its own penalty, no other step changes
\* pen, and pen never decreases.
C8_Accumulates ==
    /\ [](pen = RAdd(pen0, PenaltySum(hist)))
    /\ [][/\ PosfunStep =>
               /\ pen' = RAdd(pen, Penalty(call'.x, call'.eps))
               /\ RGe(pen', pen)
          /\ ~PosfunStep => pen' = pen]_vars

\* two penalised calls followed by one that is not
C8_Witness ==
    /\ Len(hist) >= 3
    /\ RLt(hist[1].x, hist[1].eps)
    /\ RLt(hist[2].x, hist[2].eps)
    /\ RGe(hist[3].x, hist[3].eps)
    /\ RGt(pen0, Zero)

\* C9: for y with positive entries and var > 0, negLogLogisticNormal(y, y, var)
\* is exactly (N-1)*log(var)/2.
C9_IdenticalVectors ==
    (call.op = "negLogLogisticNormal" /\ call.y = call.p) =>
        VEq(call.out.nld, VScale(R(Len(call.y) - 1, 2), Log(call.var)))

C9_Witness ==
    /\ call.op = "negLogLogisticNormal"
    /\ call.y = call.p
    /\ Len(call.y) >= 2
    /\ call.y[1] # call.y[2]
    /\ call.var # One

AllPositive(v) == \A c \in 1 .. Len(v) : RGt(v[c], Zero)

\* the weights inputComp(i) * exp(noise(i))
Weights(inputComp, noise) ==
    [c \in 1 .. Len(inputComp) |-> RMul(inputComp[c], Exp(noise[c]))]

\* C10: for inputComp of n positive entries and finite noise, the result has
\* length n, entry i is inputComp(i)*exp(noise(i)) over the sum of those
\* weights, the entries are positive and sum to 1; with zero noise the result
\* is inputComp divided by its sum.
C10_Normalised ==
    (call.op = "addCompNoise" /\ AllPositive(call.inputComp)) =>
        LET n == Len(call.inputComp)
            w == Weights(call.inputComp, call.noise)
        IN  /\ Len(call.outputComp) = n
            /\ \A c \in 1 .. n :
                 /\ call.outputComp[c] = RDiv(w[c], RSum(w))
                 /\ RGt(call.outputComp[c], Zero)
            /\ RSum(call.outputComp) = One
            /\ (\A c \in 1 .. n : call.noise[c] = Num(Zero)) =>
                 \A c \in 1 .. n :
                   call.outputComp[c] = RDiv(call.inputComp[c], RSum(call.inputComp))

\* three positive entries that do not sum to 1, with noise up and down
C10_Witness ==
    /\ call.op = "addCompNoise"
    /\ AllPositive(call.inputComp)
    /\ Len(call.inputComp) >= 3
    /\ RSum(call.inputComp) # One
    /\ \E c, d \in 1 .. Len(call.noise) :
         call.noise[c] = Log(Two) /\ call.noise[d] = Log(R(1, 2))

=============================================================================
